---------------------------- MODULE Spec2Model ----------------------------
(***************************************************************************)
(* A model of TrenchBroom's entity definition (.def) parser:               *)
(* DefTokenizer::emitToken and DefParser (IO/DefParser.cpp).               *)
(*                                                                         *)
(* The input text is a sequence of one-character strings.  The scanner     *)
(* state is a record [pos, line, col]; pos is the 1-based index of the     *)
(* character under the cursor.  The parser is a state machine whose        *)
(* program counter pc names the place in DefParser.cpp it has reached.     *)
(***************************************************************************)
EXTENDS Integers, Sequences, FiniteSets, TLC

VARIABLES
    decls,          \* the declarations the input text was written from
    input,          \* the characters handed to the DefParser constructor
    sc,             \* m_tokenizer's state: [pos, line, col]
    pc,             \* the parser's position in DefParser.cpp
    classInfo,      \* parseDefinition's local classInfo
    superClasses,   \* parseDefinition's local superClasses
    baseClasses,    \* m_baseClasses
    definitions,    \* doParseDefinitions' local list
    retDef,         \* the pointer the last parseDefinition returned
    result,         \* what doParseDefinitions handed to its caller
    err,            \* the exception in flight or delivered to the caller
    progressLog,    \* the values sent to status.progress, in order
    warnings,       \* the (line, column, message) sent to status.warn
    mstate,         \* the resolution state of the current model clause
    snap,           \* parseModel's locals snapshot, line, column
    modernErr,      \* parseModel's caught exception e
    legacyErr,      \* the exception the legacy attempt raised (discarded)
    live,           \* descriptors allocated with new and not yet deleted
    depth,          \* nesting of parseDefinition calls
    log             \* finalized declarations: what each one became

vars == <<decls, input, sc, pc, classInfo, superClasses, baseClasses,
          definitions, retDef, result, err, progressLog, warnings, mstate,
          snap, modernErr, legacyErr, live, depth, log>>

(***************************************************************************)
(* Sequencing.  With(v, F) is F applied to the value v of a statement;     *)
(* Then(r, F) goes on with F after a call that returned normally and       *)
(* passes the exception on after one that threw.                           *)
(***************************************************************************)
With(v, F(_)) == F(v)

Then(r, F(_)) == IF r.ok THEN F(r) ELSE r

(***************************************************************************)
(* Characters                                                              *)
(***************************************************************************)
NUL == ""

WordDelims == {" ", "\t", "\n", "\r", "(", ")", "[", "]", "{", "}", ";", ",", "="}

Whitespace == {" ", "\t", "\n", "\r"}

Digits == {"0", "1", "2", "3", "4", "5", "6", "7", "8", "9"}

isWhitespace(c) == c \in Whitespace

(***************************************************************************)
(* The Tokenizer base class: cursor movement and the read helpers.         *)
(***************************************************************************)
eof(s) == s.pos > Len(input)

curChar(s) == input[s.pos]

lookAhead(s) == IF s.pos + 1 <= Len(input) THEN input[s.pos + 1] ELSE NUL

\* One character forward; a line feed (or a bare carriage return) starts a
\* new line at column 1.
advance(s) ==
    IF input[s.pos] = "\n" \/ (input[s.pos] = "\r" /\ lookAhead(s) # "\n")
    THEN [pos |-> s.pos + 1, line |-> s.line + 1, col |-> 1]
    ELSE [pos |-> s.pos + 1, line |-> s.line, col |-> s.col + 1]

RECURSIVE discardWhile(_, _)
discardWhile(s, chars) ==
    IF s.pos <= Len(input) /\ input[s.pos] \in chars
    THEN discardWhile(advance(s), chars) ELSE s

RECURSIVE discardUntil(_, _)
discardUntil(s, chars) ==
    IF s.pos <= Len(input) /\ input[s.pos] \notin chars
    THEN discardUntil(advance(s), chars) ELSE s

NoPos == [pos |-> 0, line |-> 0, col |-> 0]

\* The end e of a number that began at s, if a delimiter or the end of the
\* input follows and n > 0 digits were read; nullptr otherwise.
numberEnd(e, n, delims) ==
    IF n > 0 /\ (e.pos > Len(input) \/ input[e.pos] \in delims) THEN e ELSE NoPos

skipSign(s) == IF input[s.pos] \in {"+", "-"} THEN advance(s) ELSE s

\* readInteger: an optional sign and at least one digit, ended by a
\* delimiter or the end of the input; nullptr otherwise.
readInteger(s, delims) ==
    IF input[s.pos] \notin (Digits \cup {"+", "-"}) THEN NoPos
    ELSE With(skipSign(s), LAMBDA s1 :
         With(discardWhile(s1, Digits), LAMBDA s2 :
         numberEnd(s2, s2.pos - s1.pos, delims)))

\* The digits after the decimal point when the cursor is on one.
skipFraction(s) ==
    IF s.pos <= Len(input) /\ input[s.pos] = "."
    THEN discardWhile(advance(s), Digits) ELSE s

\* readDecimal: sign, digits, an optional fraction; at least one digit.
readDecimal(s, delims) ==
    IF input[s.pos] \notin (Digits \cup {"+", "-", "."}) THEN NoPos
    ELSE With(skipSign(s), LAMBDA s1 :
         With(discardWhile(s1, Digits), LAMBDA s2 :
         With(skipFraction(s2), LAMBDA s3 :
         numberEnd(s3, (s2.pos - s1.pos)
                         + (IF s3.pos > s2.pos THEN s3.pos - s2.pos - 1 ELSE 0),
                   delims))))

\* readUntil: the characters up to the next delimiter; nullptr when there
\* is none to read (the cursor is on a delimiter).
readUntil(s, delims) ==
    With(discardUntil(s, delims), LAMBDA s1 : IF s1.pos > s.pos THEN s1 ELSE NoPos)

\* readQuotedString: the position of the closing quote, or nullptr when the
\* input ends inside the string.
readQuotedString(s) ==
    With(discardUntil(s, {"\""}), LAMBDA s1 : IF s1.pos > Len(input) THEN NoPos ELSE s1)

(***************************************************************************)
(* DefTokenizer::emitToken                                                 *)
(***************************************************************************)
\* Token(type, begin, end, offset, line, column) for a token that begins at
\* the scanner state s, with the scanner state the call leaves behind in
\* "next".
Token(type, s, e, next) ==
    [type |-> type, data |-> SubSeq(input, s.pos, e - 1), begin |-> s.pos,
     end |-> e, line |-> s.line, col |-> s.col, next |-> next]

LexErrorZeroBased(s) ==
    [type |-> "LexError", data |-> <<input[s.pos]>>, begin |-> s.pos, end |-> s.pos,
     line |-> s.line - 1, col |-> s.col - 1, next |-> s]

\* throw ParserException(startLine, startColumn, "Unexpected character: ...")
LexError(s) ==
    [type |-> "LexError", data |-> <<input[s.pos]>>, begin |-> s.pos, end |-> s.pos,
     line |-> s.line, col |-> s.col, next |-> s]

\* Token(type, c, curPos(), ...): the token ends where the cursor stands.
tokenUpTo(type, s, cur) == Token(type, s, cur.pos, cur)

\* advance(); return Token(type, c, c + 1, ...)
emitSingle(type, s) == Token(type, s, s.pos + 1, advance(s))

\* default: integer, decimal or word
emitWord(s) ==
    With(readInteger(s, WordDelims), LAMBDA e1 :
    IF e1 # NoPos THEN tokenUpTo("Integer", s, e1)
    ELSE With(readDecimal(s, WordDelims), LAMBDA e2 :
         IF e2 # NoPos THEN tokenUpTo("Decimal", s, e2)
         ELSE With(readUntil(s, WordDelims), LAMBDA e3 :
              IF e3 # NoPos THEN tokenUpTo("Word", s, e3) ELSE LexError(s))))

\* case '*': the close marker when a '/' follows, after one advance();
\* otherwise control falls through into case '('.
emitStar(s) ==
    IF lookAhead(s) = "/" THEN tokenUpTo("CDefinition", s, advance(s))
    ELSE emitSingle("OParenthesis", s)

\* case '"': the token is the text between the quotes.
emitQuotedString(s, e) ==
    IF e = NoPos THEN LexError(s)
    ELSE [type |-> "QuotedString", data |-> SubSeq(input, s.pos + 1, e.pos - 1),
          begin |-> s.pos + 1, end |-> e.pos, line |-> s.line, col |-> s.col,
          next |-> advance(e)]

\* case '\r': a line feed that follows belongs to the same token.
emitCarriageReturn(s) ==
    Token("Newline", s, s.pos + 1,
          advance(IF lookAhead(s) = "\n" THEN advance(s) ELSE s))

RECURSIVE emitToken(_)
emitToken(s) ==
    IF s.pos > Len(input)
    THEN [type |-> "Eof", data |-> <<>>, begin |-> Len(input) + 1,
          end |-> Len(input) + 1, line |-> s.line, col |-> s.col, next |-> s]
    ELSE CASE input[s.pos] = "/" ->
                IF lookAhead(s) = "*"
                THEN \* eat all chars immediately after the '*'
                     tokenUpTo("ODefinition", s, discardUntil(advance(s), Whitespace))
                ELSE IF lookAhead(s) = "/"
                THEN emitToken(discardUntil(s, {"\n", "\r"}))
                ELSE emitStar(s)
           [] input[s.pos] = "*" -> emitStar(s)
           [] input[s.pos] = "(" -> emitSingle("OParenthesis", s)
           [] input[s.pos] = ")" -> emitSingle("CParenthesis", s)
           [] input[s.pos] = "{" -> emitSingle("OBrace", s)
           [] input[s.pos] = "}" -> emitSingle("CBrace", s)
           [] input[s.pos] = "=" -> emitSingle("Equality", s)
           [] input[s.pos] = ";" -> emitSingle("Semicolon", s)
           [] input[s.pos] = "\r" -> emitCarriageReturn(s)
           [] input[s.pos] = "\n" -> emitSingle("Newline", s)
           [] input[s.pos] = "," -> emitSingle("Comma", s)
           [] input[s.pos] \in {" ", "\t"} -> emitToken(discardWhile(s, {" ", "\t"}))
           [] input[s.pos] = "\"" -> emitQuotedString(s, readQuotedString(advance(s)))
           [] input[s.pos] = "-" ->
                IF isWhitespace(lookAhead(s)) THEN emitSingle("Minus", s)
                ELSE emitWord(s)
           [] OTHER -> emitWord(s)

nextToken(s) == emitToken(s)

peekToken(s) == emitToken(s)

\* DefParser::nextTokenIgnoringNewlines
RECURSIVE skipNewlines(_)
skipNewlines(token) ==
    IF token.type = "Newline" THEN skipNewlines(nextToken(token.next)) ELSE token

nextTokenIgnoringNewlines(s) == skipNewlines(nextToken(s))

(***************************************************************************)
(* Parser base class: exceptions and expect                                *)
(***************************************************************************)
NoErr == [kind |-> "none", line |-> 0, col |-> 0, by |-> "none", what |-> <<>>]

\* ParserException(line, column, message).  "by" and "what" stand for the
\* message: which grammar raised the exception, and the text it names (for
\* a lexical error, "Unexpected character: " and the character).
ParserException(kind, token, by) ==
    [kind |-> kind, line |-> token.line, col |-> token.col, by |-> by,
     what |-> token.data]

Ok(s, v) == [ok |-> TRUE, s |-> s, v |-> v, e |-> NoErr]

Fail(s, e) == [ok |-> FALSE, s |-> s, v |-> <<>>, e |-> e]

\* expect(status, typeMask, token).  A token of type LexError is the
\* exception emitToken threw while the argument was evaluated.
expect(typeMask, token, by) ==
    IF token.type = "LexError"
    THEN Fail(token.next, ParserException("lexical", token, by))
    ELSE IF token.type \in typeMask THEN Ok(token.next, token)
    ELSE Fail(token.next, ParserException("syntax", token, by))

\* expect(status, typeMask, m_tokenizer.peekToken()): the peeked token is
\* not consumed, so a syntax error leaves the scanner where it stood.
expectPeeked(typeMask, s, by) ==
    With(expect(typeMask, peekToken(s), by), LAMBDA r :
    IF r.ok \/ r.e.kind = "lexical" THEN r ELSE Fail(s, r.e))

\* A peeked token: the exception of emitToken if it threw, the token
\* otherwise.
peeked(token) ==
    IF token.type = "LexError"
    THEN Fail(token.next, ParserException("lexical", token, "def"))
    ELSE Ok(token.next, token)

\* A run of expect(status, mask, nextToken()) statements (or, with skipNL,
\* of expect(status, mask, nextTokenIgnoringNewlines())); v collects the
\* tokens.
RECURSIVE expectAll(_, _, _, _)
expectAll(s, masks, skipNL, by) ==
    IF masks = <<>> THEN Ok(s, <<>>)
    ELSE Then(expect(Head(masks),
                     IF skipNL THEN nextTokenIgnoringNewlines(s) ELSE nextToken(s),
                     by), LAMBDA r :
         Then(expectAll(r.s, Tail(masks), skipNL, by), LAMBDA rest :
         Ok(rest.s, <<r.v>> \o rest.v)))

(***************************************************************************)
(* Numbers: Token::toFloat, as the fraction num/den                        *)
(***************************************************************************)
DigitValue(c) ==
    CASE c = "0" -> 0 [] c = "1" -> 1 [] c = "2" -> 2 [] c = "3" -> 3
      [] c = "4" -> 4 [] c = "5" -> 5 [] c = "6" -> 6 [] c = "7" -> 7
      [] c = "8" -> 8 [] c = "9" -> 9

RECURSIVE digitsValue(_, _)
digitsValue(ds, acc) ==
    IF ds = <<>> THEN acc ELSE digitsValue(Tail(ds), 10 * acc + DigitValue(Head(ds)))

RECURSIVE pow10(_)
pow10(n) == IF n = 0 THEN 1 ELSE 10 * pow10(n - 1)

\* The number of characters after the decimal point.
FractionLen(data) ==
    IF \E i \in 1..Len(data) : data[i] = "."
    THEN Len(data) - (CHOOSE i \in 1..Len(data) : data[i] = ".")
    ELSE 0

toFloat(data) ==
    [num |-> (IF data # <<>> /\ Head(data) = "-" THEN -1 ELSE 1)
               * digitsValue(SelectSeq(data, LAMBDA c : c \in Digits), 0),
     den |-> pow10(FractionLen(data))]

\* a < b for fractions with positive denominators
Less(a, b) == a.num * b.den < b.num * a.den

One == [num |-> 1, den |-> 1]

(***************************************************************************)
(* EntityDefinitionClassInfo                                               *)
(***************************************************************************)
NoValue == <<>>

EntityDefinitionClassInfo ==
    [name |-> <<>>, hasColor |-> FALSE, color |-> NoValue,
     hasSize |-> FALSE, size |-> NoValue, attributes |-> <<>>,
     hasDescription |-> FALSE, description |-> <<>>,
     hasModelDefinition |-> FALSE, modelDefinition |-> NoValue]

setName(ci, name) == [ci EXCEPT !.name = name]

setColor(ci, color) == [ci EXCEPT !.hasColor = TRUE, !.color = color]

setSize(ci, size) == [ci EXCEPT !.hasSize = TRUE, !.size = size]

setDescription(ci, text) == [ci EXCEPT !.hasDescription = TRUE, !.description = text]

setModelDefinition(ci, m) == [ci EXCEPT !.hasModelDefinition = TRUE, !.modelDefinition = m]

addAttributeDefinition(ci, attr) == [ci EXCEPT !.attributes = Append(@, attr)]

AttributeNames(ci) == {ci.attributes[i].name : i \in 1..Len(ci.attributes)}

\* One base class merged into ci: a field of the base fills in only what ci
\* left unset.
mergeBaseClass(ci, base) ==
    [ci EXCEPT
       !.hasDescription = @ \/ base.hasDescription,
       !.description = IF ci.hasDescription THEN @ ELSE base.description,
       !.hasColor = @ \/ base.hasColor,
       !.color = IF ci.hasColor THEN @ ELSE base.color,
       !.hasSize = @ \/ base.hasSize,
       !.size = IF ci.hasSize THEN @ ELSE base.size,
       !.attributes = @ \o SelectSeq(base.attributes,
                                     LAMBDA a : a.name \notin AttributeNames(ci)),
       !.hasModelDefinition = @ \/ base.hasModelDefinition,
       !.modelDefinition = IF ci.hasModelDefinition THEN @ ELSE base.modelDefinition]

\* classInfo.resolveBaseClasses(m_baseClasses, superClasses): the named
\* classes that are registered are merged in, in the order they were named.
RECURSIVE resolveBaseClasses(_, _, _)
resolveBaseClasses(ci, reg, supers) ==
    IF supers = <<>> THEN ci
    ELSE resolveBaseClasses(IF Head(supers) \in DOMAIN reg
                            THEN mergeBaseClass(ci, reg[Head(supers)]) ELSE ci,
                            reg, Tail(supers))

(***************************************************************************)
(* DefParser: the header clauses                                           *)
(***************************************************************************)
Number == {"Integer", "Decimal"}

scaleFromOne(raw) ==
    IF Less(raw, One) THEN raw ELSE [num |-> raw.num, den |-> raw.den * 255]

\* if (color[i] > 1.0f) color[i] /= 255.0f;
scaleComponent(raw) ==
    IF Less(One, raw) THEN [num |-> raw.num, den |-> raw.den * 255] ELSE raw

\* color[i] = token.toFloat<float>(), then scaled
colorComponent(data) == scaleComponent(toFloat(data))

\* DefParser::parseColor
parseColor(s) ==
    Then(expectAll(s, <<{"OParenthesis"}, Number, Number, Number, {"CParenthesis"}>>,
                   FALSE, "def"), LAMBDA r :
    Ok(r.s, <<colorComponent(r.v[2].data), colorComponent(r.v[3].data),
              colorComponent(r.v[4].data), One>>))

Min(a, b) == IF Less(b, a) THEN b ELSE a

Max(a, b) == IF Less(a, b) THEN b ELSE a

\* vm::bbox3 repair(bounds): the component-wise minimum and maximum.
repair(bounds) ==
    [min |-> [i \in 1..3 |-> Min(bounds.min[i], bounds.max[i])],
     max |-> [i \in 1..3 |-> Max(bounds.min[i], bounds.max[i])]]

parseBoundsAsWritten(s) ==
    Then(expectAll(s, <<{"OParenthesis"}, Number, Number, Number, {"CParenthesis"},
                        {"OParenthesis"}, Number, Number, Number, {"CParenthesis"}>>,
                   FALSE, "def"), LAMBDA r :
    Ok(r.s, [min |-> [i \in 1..3 |-> toFloat(r.v[1 + i].data)],
             max |-> [i \in 1..3 |-> toFloat(r.v[6 + i].data)]]))

\* DefParser::parseBounds with its two parseVector calls
parseBounds(s) ==
    Then(expectAll(s, <<{"OParenthesis"}, Number, Number, Number, {"CParenthesis"},
                        {"OParenthesis"}, Number, Number, Number, {"CParenthesis"}>>,
                   FALSE, "def"), LAMBDA r :
    Ok(r.s, repair([min |-> [i \in 1..3 |-> toFloat(r.v[1 + i].data)],
                    max |-> [i \in 1..3 |-> toFloat(r.v[6 + i].data)]])))

\* The width of int, the type of the expression 1 << numOptions.
IntWidth == 32

\* 1 << n in int.  A shift into the sign bit gives INT_MIN; a shift by the
\* width or more is undefined: the build either masks the count or yields 0.
RECURSIVE ShiftLeftOne(_, _)
ShiftLeftOne(n, ub) ==
    IF n < IntWidth - 1 THEN 2 ^ n
    ELSE IF n = IntWidth - 1 THEN (-(2 ^ (IntWidth - 2))) - 2 ^ (IntWidth - 2)
    ELSE IF ub = "zero" THEN 0
    ELSE ShiftLeftOne(n % IntWidth, ub)

UndefinedShift == {"mask", "zero"}

Spawnflags == <<"s", "p", "a", "w", "n", "f", "l", "a", "g", "s">>

\* definition->addOption(value, name, "", false) with
\* name = token.hasType(Word) ? token.data() : "" and value = 1 << numOptions++
addOption(options, token, ub) ==
    Append(options, [value |-> ShiftLeftOne(Len(options), ub),
                     name |-> IF token.type = "Word" THEN token.data ELSE <<>>])

\* The loop of DefParser::parseSpawnflags, from the peeked token on.
RECURSIVE spawnflagsLoop(_, _, _)
spawnflagsLoop(s, options, ub) ==
    Then(peeked(peekToken(s)), LAMBDA r :
    IF r.v.type \in {"Word", "Minus"}
    THEN spawnflagsLoop(r.s, addOption(options, r.v, ub), ub)
    ELSE Ok(s, options))

\* DefParser::parseSpawnflags
parseSpawnflags(s, ub) ==
    Then(spawnflagsLoop(s, <<>>, ub), LAMBDA r :
    Ok(r.s, [name |-> Spawnflags, kind |-> "flags", options |-> r.v]))

\* parseDefinition after the color: bounds, or the word "?", or neither.
parseSizeClause(s, ci) ==
    Then(expectPeeked({"OParenthesis", "Word"}, s, "def"), LAMBDA r :
    IF r.v.type = "OParenthesis"
    THEN Then(parseBounds(s), LAMBDA b : Ok(b.s, setSize(ci, b.v)))
    ELSE IF r.v.data = <<"?">> THEN Ok(r.s, ci)
    ELSE Ok(s, ci))

\* parseDefinition: the optional spawnflags after the size clause.
parseFlagsClause(s, ci, ub) ==
    Then(peeked(peekToken(s)), LAMBDA r :
    IF r.v.type \in {"Word", "Minus"}
    THEN Then(parseSpawnflags(s, ub), LAMBDA f : Ok(f.s, addAttributeDefinition(ci, f.v)))
    ELSE Ok(s, ci))

\* expect(status, DefToken::Newline, m_tokenizer.nextToken()): the header ends.
headerEnd(s, ci) ==
    Then(expect({"Newline"}, nextToken(s), "def"), LAMBDA r : Ok(r.s, ci))

\* parseDefinition after the class name: the color with what follows it.
parseColorClause(s, ci, ub) ==
    Then(parseColor(s), LAMBDA c :
    Then(parseSizeClause(c.s, setColor(ci, c.v)), LAMBDA z :
    parseFlagsClause(z.s, z.v, ub)))

\* parseDefinition from the class name to the newline that ends the header.
parseHeader(s, ub) ==
    Then(expect({"Word"}, nextToken(s), "def"), LAMBDA n :
    Then(expectPeeked({"OParenthesis", "Newline"}, n.s, "def"), LAMBDA p :
    IF p.v.type = "OParenthesis"
    THEN Then(parseColorClause(n.s, setName(EntityDefinitionClassInfo, n.v.data), ub),
              LAMBDA c : headerEnd(c.s, c.v))
    ELSE headerEnd(n.s, setName(EntityDefinitionClassInfo, n.v.data))))

(***************************************************************************)
(* DefParser: the attribute block                                          *)
(***************************************************************************)
DefaultWord == <<"d", "e", "f", "a", "u", "l", "t">>

BaseWord == <<"b", "a", "s", "e">>

ChoiceWord == <<"c", "h", "o", "i", "c", "e">>

ModelWord == <<"m", "o", "d", "e", "l">>

\* DefParser::parseDefaultAttribute
parseDefaultAttribute(s) ==
    expectAll(s, <<{"OParenthesis"}, {"QuotedString"}, {"Comma"}, {"QuotedString"},
                   {"CParenthesis"}>>, TRUE, "def")

\* DefParser::parseBaseAttribute
parseBaseAttribute(s) ==
    Then(expectAll(s, <<{"OParenthesis"}, {"QuotedString"}, {"CParenthesis"}>>,
                   TRUE, "def"), LAMBDA r :
    Ok(r.s, r.v[2].data))

\* The option loop of parseChoiceAttribute, from the token read before the
\* loop's test, to the closing parenthesis.
RECURSIVE choiceOptions(_, _)
choiceOptions(token, options) ==
    IF token.type = "OParenthesis"
    THEN Then(expectAll(token.next, <<{"Integer"}, {"Comma"}, {"QuotedString"},
                                      {"CParenthesis"}>>, TRUE, "def"), LAMBDA r :
         choiceOptions(nextTokenIgnoringNewlines(r.s),
                       Append(options, [name |-> r.v[1].data, value |-> r.v[3].data])))
    ELSE Then(expect({"CParenthesis"}, token, "def"), LAMBDA r : Ok(r.s, options))

\* DefParser::parseChoiceAttribute
parseChoiceAttribute(s) ==
    Then(expect({"QuotedString"}, nextToken(s), "def"), LAMBDA n :
    Then(expect({"OParenthesis"}, nextTokenIgnoringNewlines(n.s), "def"), LAMBDA p :
    Then(choiceOptions(nextTokenIgnoringNewlines(p.s), <<>>), LAMBDA o :
    Ok(o.s, [name |-> n.v.data, kind |-> "choice", options |-> o.v]))))

\* The end of parseAttribute: expect(status, Semicolon, ...)
attributeEnd(s) == expect({"Semicolon"}, nextTokenIgnoringNewlines(s), "def")

(***************************************************************************)
(* The two model expression grammars                                       *)
(***************************************************************************)
\* ELParser::parse: one expression of the modern grammar, here a literal.
ELParserParse(s) ==
    Then(expect({"QuotedString", "Integer", "Decimal"},
                nextTokenIgnoringNewlines(s), "modern"), LAMBDA r :
    Ok(r.s, [path |-> r.v.data, skin |-> <<>>, frame |-> <<>>]))

\* An integer of the legacy grammar, if one is next.
optionalInteger(s, token) ==
    IF token.type = "Integer" THEN Ok(token.next, token.data) ELSE Ok(s, <<>>)

\* LegacyModelDefinitionParser::parse: a quoted path, then up to two
\* integers (skin, frame).
LegacyModelDefinitionParserParse(s) ==
    Then(expect({"QuotedString"}, nextToken(s), "legacy"), LAMBDA p :
    Then(optionalInteger(p.s, peekToken(p.s)), LAMBDA k :
    Then(IF k.v = <<>> THEN k ELSE optionalInteger(k.s, peekToken(k.s)), LAMBDA f :
    Ok(f.s, [path |-> p.v.data, skin |-> k.v, frame |-> f.v]))))

\* The body of parseModel's outer try block.
modernAttempt(s) ==
    Then(ELParserParse(s), LAMBDA r :
    Then(expect({"CParenthesis"}, nextToken(r.s), "modern"), LAMBDA c : Ok(c.s, r.v)))

\* The body of parseModel's inner try block, after the restore.
legacyAttempt(s) ==
    Then(LegacyModelDefinitionParserParse(s), LAMBDA r :
    Then(expect({"CParenthesis"}, nextToken(r.s), "legacy"), LAMBDA c : Ok(c.s, r.v)))

(***************************************************************************)
(* DefParser::parseDescription                                             *)
(***************************************************************************)
\* Tokenizer::readRemainder: tokens are read until the next one is of the
\* delimiter type or the input ends; v is the text they span.
RECURSIVE readRemainderTo(_, _, _)
readRemainderTo(s, from, type) ==
    Then(peeked(nextToken(s)), LAMBDA t :
    Then(peeked(peekToken(t.s)), LAMBDA ahead :
    IF ahead.v.type = type \/ t.s.pos > Len(input)
    THEN Ok(t.s, SubSeq(input, from, t.v.end - 1))
    ELSE readRemainderTo(t.s, from, type)))

readRemainder(s, type) ==
    Then(peeked(peekToken(s)), LAMBDA first :
    IF first.v.type = "Eof" THEN Ok(s, <<>>)
    ELSE readRemainderTo(s, first.v.begin, type))

\* kdl::str_trim
RECURSIVE str_trim(_)
str_trim(str) ==
    IF str = <<>> THEN str
    ELSE IF isWhitespace(Head(str)) THEN str_trim(Tail(str))
    ELSE IF isWhitespace(str[Len(str)]) THEN str_trim(SubSeq(str, 1, Len(str) - 1))
    ELSE str

parseDescription(s) ==
    Then(peeked(peekToken(s)), LAMBDA token :
    IF token.v.type = "CDefinition" THEN Ok(s, <<>>)
    ELSE readRemainder(s, "CDefinition"))

parseDefinitionEndUntrimmed(s, ci) ==
    Then(parseDescription(s), LAMBDA d :
    Then(expect({"CDefinition"}, nextToken(d.s), "def"), LAMBDA c :
    Ok(c.s, setDescription(ci, d.v))))

\* parseDefinition: classInfo.setDescription(kdl::str_trim(parseDescription()))
\* and expect(status, DefToken::CDefinition, m_tokenizer.nextToken())
parseDefinitionEnd(s, ci) ==
    Then(parseDescription(s), LAMBDA d :
    Then(expect({"CDefinition"}, nextToken(d.s), "def"), LAMBDA c :
    Ok(c.s, setDescription(ci, str_trim(d.v)))))

(***************************************************************************)
(* DefParser::parseDefinition: finalization                                *)
(***************************************************************************)
\* m_defaultEntityColor, the color the caller handed to the constructor
Half == [num |-> 1, den |-> 2]

DefaultEntityColor == <<Half, Half, Half, One>>

newBrushEntityDefinition(ci) ==
    [kind |-> "brush", name |-> ci.name, color |-> ci.color,
     description |-> ci.description, attributes |-> ci.attributes]

newEntityDefinitionDefaultColored(ci) ==
    IF ci.hasSize
    THEN [kind |-> "point", name |-> ci.name, color |-> ci.color, size |-> ci.size,
          description |-> ci.description, attributes |-> ci.attributes,
          modelDefinition |-> ci.modelDefinition]
    ELSE [kind |-> "brush", name |-> ci.name, color |-> DefaultEntityColor,
          description |-> ci.description, attributes |-> ci.attributes]

\* new Assets::PointEntityDefinition(...) or new Assets::BrushEntityDefinition(...)
\* The brush constructor takes no size and no model definition.
newEntityDefinition(ci) ==
    IF ci.hasSize
    THEN [kind |-> "point", name |-> ci.name, color |-> ci.color, size |-> ci.size,
          description |-> ci.description, attributes |-> ci.attributes,
          modelDefinition |-> ci.modelDefinition]
    ELSE [kind |-> "brush", name |-> ci.name,
          color |-> IF ci.hasColor THEN ci.color ELSE DefaultEntityColor,
          description |-> ci.description, attributes |-> ci.attributes]

\* A registry that holds every colorless declaration of the input, those
\* not yet parsed included, each with the model its text gives it.
modelClauses(d) == {i \in 1..Len(d.attrs) : d.attrs[i].k = "model"}

declaredBase(d) ==
    IF modelClauses(d) = {} THEN setName(EntityDefinitionClassInfo, d.name)
    ELSE setModelDefinition(setName(EntityDefinitionClassInfo, d.name),
                            [path |-> d.attrs[CHOOSE i \in modelClauses(d) : TRUE].arg,
                             skin |-> <<>>, frame |-> <<>>])

wholeInputRegistry ==
    [n \in {decls[i].name : i \in {j \in 1..Len(decls) : decls[j].color = <<>>}} |->
        declaredBase(decls[CHOOSE i \in 1..Len(decls) :
                               decls[i].color = <<>> /\ decls[i].name = n])]

resolveAgainstWholeInput(ci, reg, supers) ==
    newEntityDefinition(resolveBaseClasses(ci, wholeInputRegistry, supers))

buildUnresolved(ci, reg, supers) == newEntityDefinition(ci)

\* if (classInfo.hasColor()) { classInfo.resolveBaseClasses(...); return new ... }
resolveAndBuild(ci, reg, supers) ==
    newEntityDefinition(resolveBaseClasses(ci, reg, supers))

storeIfAbsent(reg, ci) ==
    [n \in DOMAIN reg \cup {ci.name} |-> IF n \in DOMAIN reg THEN reg[n] ELSE ci]

\* m_baseClasses[classInfo.name()] = classInfo
storeBaseClass(reg, ci) ==
    [n \in DOMAIN reg \cup {ci.name} |-> IF n = ci.name THEN ci ELSE reg[n]]

NoDefinition == [kind |-> "nullptr"]

(***************************************************************************)
(* The input texts.  A text is written from a sequence of declarations;    *)
(* each declaration is a record                                            *)
(*   name   the class name                                                 *)
(*   color  the color clause, or <<>> for a declaration without color     *)
(*   size   "none", "?" or "box"                                           *)
(*   flags  the spawnflags entries, each "w" (a word) or "-"               *)
(*   block  TRUE when the declaration has an attribute block               *)
(*   attrs  the attributes in the block                                    *)
(*   desc   the description text                                           *)
(*   sep    the characters between the close marker and the next block     *)
(***************************************************************************)
NL == <<"\n">>

RECURSIVE Flatten(_)
Flatten(seqs) == IF seqs = <<>> THEN <<>> ELSE Head(seqs) \o Flatten(Tail(seqs))

Quoted(str) == <<"\"">> \o str \o <<"\"">>

\* An attribute written with line feeds between its tokens, at the place
\* a.nl names.
RenderSpread(a) ==
    CASE a.k = "choice" /\ a.nl = "name" ->
            ChoiceWord \o NL \o Quoted(a.arg)
              \o <<" ", "(", "(", "0", ",">> \o Quoted(<<"x">>) \o <<")", ")", ";">>
      [] a.k = "choice" /\ a.nl = "list" ->
            ChoiceWord \o <<" ">> \o Quoted(a.arg)
              \o NL \o <<"(">> \o NL \o <<"(">> \o NL \o <<"0">> \o NL \o <<",">>
              \o NL \o Quoted(<<"x">>) \o NL \o <<")">> \o NL \o <<")">> \o NL \o <<";">>
      [] a.k = "model" /\ a.nl = "open" ->
            ModelWord \o NL \o <<"(">> \o Quoted(a.arg) \o <<")", ";">>
      [] a.k = "model" /\ a.nl = "close" ->
            ModelWord \o <<"(">> \o Quoted(a.arg) \o NL \o <<")", ";">>
      [] a.k = "base" ->
            BaseWord \o NL \o <<"(">> \o NL \o Quoted(a.arg) \o NL \o <<")">>
              \o NL \o <<";">>
      [] a.k = "default" ->
            DefaultWord \o NL \o <<"(">> \o NL \o Quoted(<<"k">>) \o NL \o <<",">>
              \o NL \o Quoted(<<"v">>) \o NL \o <<")">> \o NL \o <<";">>

RenderAttr(a) ==
    IF "nl" \in DOMAIN a THEN RenderSpread(a) ELSE
    CASE a.k = "base" -> BaseWord \o <<"(">> \o Quoted(a.arg) \o <<")", ";">>
      [] a.k = "model" /\ a.form = "modern" ->
            ModelWord \o <<"(">> \o Quoted(a.arg) \o <<")", ";">>
      [] a.k = "model" /\ a.form = "legacy" ->
            ModelWord \o <<"(">> \o Quoted(a.arg) \o <<" ", "1", ")", ";">>
      [] a.k = "model" /\ a.form = "bad" ->
            ModelWord \o <<"(", "1", " ", "1", ")", ";">>
      [] a.k = "model" /\ a.form = "open" ->
            ModelWord \o <<" ", "1", ";">>
      [] a.k = "choice" ->
            ChoiceWord \o <<" ">> \o Quoted(a.arg)
              \o <<" ", "(", "(", "0", ",">> \o Quoted(<<"x">>) \o <<")", ")", ";">>
      [] a.k = "default" ->
            DefaultWord \o <<"(">> \o Quoted(<<"k">>) \o <<",">> \o Quoted(<<"v">>)
              \o <<")", ";">>
      [] a.k = "other" -> <<"f", "o", "o", ";">>
      [] a.k = "lex" -> <<"[", ";">>
      [] a.k = "close" -> <<"]", ";">>
      [] a.k = "at" -> <<"@", ";">>

RenderFlag(f) == IF f = "w" THEN <<" ", "f">> ELSE <<" ", "-">>

\* The two corners a size clause is written with.
SizeText(size) ==
    CASE size = "box" -> <<"(", "1", " ", "1", " ", "0", ")", " ", "(", "0", " ", "0", " ", "1", ")">>
      [] size = "ordered" -> <<"(", "-", "8", " ", "-", "8", " ", "0", ")", " ", "(", "8", " ", "8", " ", "1", "6", ")">>
      [] size = "swapped" -> <<"(", "8", " ", "8", " ", "1", "6", ")", " ", "(", "-", "8", " ", "-", "8", " ", "0", ")">>
      [] size = "mixed" -> <<"(", "0", ".", "5", " ", "-", "1", " ", "2", ")", " ", "(", "0", ".", "2", "5", " ", "1", " ", "-", "2", ")">>
      [] size = "flat" -> <<"(", "3", " ", "3", " ", "3", ")", " ", "(", "3", " ", "3", " ", "3", ")">>

RenderSize(size) ==
    CASE size = "none" -> <<>>
      [] size = "?" -> <<" ", "?">>
      [] OTHER -> <<" ">> \o SizeText(size)

Render(d) ==
    <<"/", "*", "Q", " ">> \o d.name
      \o (IF d.color = <<>> THEN <<>> ELSE <<" ", "(">> \o d.color \o <<")">>)
      \o RenderSize(d.size)
      \o Flatten([i \in 1..Len(d.flags) |-> RenderFlag(d.flags[i])])
      \o NL
      \o (IF d.block
          THEN <<"{">> \o NL
                 \o Flatten([i \in 1..Len(d.attrs) |-> RenderAttr(d.attrs[i]) \o NL])
                 \o <<"}">> \o NL
          ELSE <<>>)
      \o (IF d.desc = <<>> THEN <<>> ELSE d.desc \o NL)
      \o <<"*", "/">> \o d.sep

RenderAll(ds) == Flatten([i \in 1..Len(ds) |-> Render(ds[i])])

Green == <<"0", " ", "1", " ", "0">>

Decl(name, color, size, attrs) ==
    [name |-> name, color |-> color, size |-> size, flags |-> <<>>,
     block |-> TRUE, attrs |-> attrs, desc |-> <<>>, sep |-> NL]

Base(name) == [k |-> "base", arg |-> name]

Model(form, path) == [k |-> "model", form |-> form, arg |-> path]

Choice(name) == [k |-> "choice", arg |-> name]

\* The declarations every input may hold, in any order.
CoreDecls ==
    { Decl(<<"a">>, <<>>, "none", <<Model("modern", <<"p">>)>>),
      Decl(<<"a">>, <<>>, "none", <<Choice(<<"c">>)>>),
      Decl(<<"b">>, <<>>, "none", <<Base(<<"a">>), Model("modern", <<"q">>)>>),
      Decl(<<"p">>, Green, "box", <<Base(<<"a">>)>>),
      Decl(<<"q">>, Green, "?", <<Base(<<"a">>)>>),
      Decl(<<"r">>, Green, "box",
           <<Model("modern", <<"m">>), Base(<<"a">>), Base(<<"b">>)>>),
      [Decl(<<"s">>, Green, "box", <<>>) EXCEPT !.block = FALSE, !.sep = <<>>] }

\* Declarations that short inputs hold as well.
ExtraDecls ==
    { Decl(<<"t">>, Green, "box", <<Model("legacy", <<"p">>)>>),
      Decl(<<"t">>, Green, "box", <<Model("bad", <<"p">>)>>),
      Decl(<<"t">>, <<>>, "none", <<Model("open", <<"p">>)>>),
      Decl(<<"t">>, Green, "none", <<>>),
      Decl(<<"t">>, Green, "box", <<[k |-> "lex"]>>),
      Decl(<<"t">>, Green, "?", <<[k |-> "default"], [k |-> "other"]>>),
      Decl(<<"t">>, Green, "box", <<Choice(<<"c">>), Base(<<"a">>)>>),
      [Decl(<<"t">>, <<"2", " ", "0", ".", "5", " ", "1">>, "?", <<>>) EXCEPT !.desc = <<"d", " ", "e">>],
      [Decl(<<"t">>, Green, "none", <<>>) EXCEPT !.flags = <<"w", "-">>, !.block = FALSE],
      [Decl(<<"b">>, <<>>, "none", <<>>) EXCEPT !.sep = <<>>] }

\* The longest input, in declarations, written from CoreDecls alone.
MaxDecls == 3

\* The longest input written from CoreDecls and ExtraDecls together.
MaxShort == 2

\* The longest spawnflags clause.
MaxFlags == 33

RECURSIVE SeqsUpTo(_, _)
SeqsUpTo(S, n) ==
    IF n = 0 THEN {<<>>}
    ELSE SeqsUpTo(S, n - 1)
           \cup {Append(q, x) : q \in {r \in SeqsUpTo(S, n - 1) : Len(r) = n - 1}, x \in S}

\* One declaration with k spawnflags entries: all words, or words and
\* minus signs in turn.
FlagDecls ==
    { [Decl(<<"t">>, Green, size, <<>>) EXCEPT
         !.flags = [i \in 1..k |-> IF mixed /\ i % 2 = 0 THEN "-" ELSE "w"]] :
      size \in {"?", "box"}, k \in 0..MaxFlags, mixed \in BOOLEAN }

\* Declarations that are parsed alone: colors with components below, at
\* and above 1, corners in every order, and characters the scanner has no
\* rule of their own for.
ProbeColors ==
    { <<"2", "5", "5", " ", "0", " ", "1", "2", "8">>,
      <<"1", " ", "1", " ", "1">>,
      <<"1", ".", "5", " ", "1", " ", "0", ".", "9", "9">>,
      <<"0", ".", "5", " ", "2", " ", "3", "0", "0">>,
      <<"1", ".", "0", " ", "1", ".", "0", "1", " ", "0">> }

SpreadAttrs ==
    { [k |-> "choice", arg |-> <<"c">>, nl |-> "name"],
      [k |-> "choice", arg |-> <<"c">>, nl |-> "list"],
      [k |-> "model", form |-> "modern", arg |-> <<"p">>, nl |-> "open"],
      [k |-> "model", form |-> "modern", arg |-> <<"p">>, nl |-> "close"],
      [k |-> "base", arg |-> <<"a">>, nl |-> "all"],
      [k |-> "default", nl |-> "all"] }

\* Declarations with one attribute that is written over several lines.
SpreadDecls ==
    { Decl(<<"t">>, Green, "?", <<a>>) : a \in SpreadAttrs }
      \cup { Decl(<<"t">>, <<>>, "none", <<a>>) : a \in SpreadAttrs }

ProbeDecls ==
    { Decl(<<"t">>, color, size, <<>>) :
        color \in ProbeColors, size \in {"?", "ordered", "swapped", "mixed", "flat"} }
      \cup { Decl(<<"t">>, Green, "?", <<[k |-> "at"]>>),
             Decl(<<"t">>, Green, "box", <<[k |-> "close"]>>),
             [Decl(<<"t">>, Green, "?", <<>>) EXCEPT !.desc = <<"a", " ", "*", " ", "b", " ", "/", " ", "c", " ", "*", "d">>],
             [Decl(<<"@">>, <<>>, "none", <<>>) EXCEPT !.desc = <<"e", "-", "m", "a", "i", "l", ":", " ", "x", "@", "y">>],
             [Decl(<<"t">>, Green, "?", <<>>) EXCEPT !.desc = <<" ", "d", " ", "\t">>],
             [Decl(<<"t">>, Green, "box", <<>>) EXCEPT
                !.desc = <<"\t", "d", "\n", "\n", " ", "e">>, !.block = FALSE] }

Inputs ==
    SeqsUpTo(CoreDecls, MaxDecls)
      \cup SeqsUpTo(CoreDecls \cup ExtraDecls, MaxShort)
      \cup {<<d>> : d \in FlagDecls \cup ProbeDecls \cup SpreadDecls}

(***************************************************************************)
(* The parser as a state machine                                           *)
(***************************************************************************)
NoSnapshot == [state |-> NoPos, line |-> 0, column |-> 0]

Init ==
    /\ decls \in Inputs
    /\ input = RenderAll(decls)
    /\ sc = [pos |-> 1, line |-> 1, col |-> 1]
    /\ pc = "call"
    /\ classInfo = EntityDefinitionClassInfo
    /\ superClasses = <<>>
    /\ baseClasses = <<>>
    /\ definitions = <<>>
    /\ retDef = NoDefinition
    /\ result = "none"
    /\ err = NoErr
    /\ progressLog = <<>>
    /\ warnings = <<>>
    /\ mstate = "Unattempted"
    /\ snap = NoSnapshot
    /\ modernErr = NoErr
    /\ legacyErr = NoErr
    /\ live = 0
    /\ depth = 1
    /\ log = <<>>

\* An exception leaves the function it was raised in.
Throw(r) ==
    /\ pc' = "throw"
    /\ err' = r.e
    /\ sc' = r.s

\* parseDefinition: the loop that skips to the next open marker.
RECURSIVE skipToDefinition(_)
skipToDefinition(token) ==
    IF token.type \in {"Eof", "ODefinition", "LexError"} THEN token
    ELSE skipToDefinition(nextToken(token.next))

Skipped(token) ==
    \/ /\ token.type = "LexError"
       /\ Throw(peeked(token))
       /\ UNCHANGED retDef
    \/ /\ token.type = "Eof"
       /\ retDef' = NoDefinition
       /\ pc' = "ret"
       /\ sc' = token.next
       /\ UNCHANGED err
    \/ /\ token.type = "ODefinition"
       /\ pc' = "header"
       /\ sc' = token.next
       /\ UNCHANGED <<retDef, err>>

ParseDefinitionSkip ==
    /\ pc = "call"
    /\ Skipped(skipToDefinition(nextToken(sc)))
    /\ UNCHANGED <<decls, input, classInfo, superClasses, baseClasses, definitions,
                   result, progressLog, warnings, mstate, snap, modernErr,
                   legacyErr, live, depth, log>>

HeaderParsed(r) ==
    \/ /\ r.ok
       /\ classInfo' = r.v
       /\ superClasses' = <<>>
       /\ mstate' = "Unattempted"
       /\ sc' = r.s
       /\ pc' = "attrs"
       /\ UNCHANGED err
    \/ /\ ~r.ok
       /\ Throw(r)
       /\ UNCHANGED <<classInfo, superClasses, mstate>>

\* parseDefinition: the header line.
ParseHeader ==
    /\ pc = "header"
    /\ \E ub \in UndefinedShift : HeaderParsed(parseHeader(sc, ub))
    /\ UNCHANGED <<decls, input, baseClasses, definitions, retDef, result,
                   progressLog, warnings, snap, modernErr, legacyErr, live, depth,
                   log>>

BlockPeeked(r) ==
    \/ /\ ~r.ok
       /\ Throw(r)
    \/ /\ r.ok /\ r.v.type = "OBrace"
       /\ sc' = r.s
       /\ pc' = "attr"
       /\ UNCHANGED err
    \/ /\ r.ok /\ r.v.type # "OBrace"
       /\ pc' = "desc"
       /\ UNCHANGED <<sc, err>>

\* DefParser::parseAttributes up to the first parseAttribute call.
ParseAttributes ==
    /\ pc = "attrs"
    /\ BlockPeeked(peeked(peekToken(sc)))
    /\ UNCHANGED <<decls, input, classInfo, superClasses, baseClasses, definitions,
                   retDef, result, progressLog, warnings, mstate, snap, modernErr,
                   legacyErr, live, depth, log>>

\* The attribute's own clause, for the attributes parseAttribute handles in
\* one call: default, base, choice and any other word.
attributeClause(s, typeName) ==
    CASE typeName = DefaultWord -> parseDefaultAttribute(s)
      [] typeName = BaseWord -> parseBaseAttribute(s)
      [] typeName = ChoiceWord -> parseChoiceAttribute(s)
      [] OTHER -> Ok(s, <<>>)

\* parseAttribute for such an attribute; v is the pair of classInfo and
\* superClasses.
plainAttribute(s, typeName, ci, supers) ==
    Then(attributeClause(s, typeName), LAMBDA r :
    Then(attributeEnd(r.s), LAMBDA e :
    Ok(e.s, CASE typeName = BaseWord -> <<ci, Append(supers, r.v)>>
              [] typeName = ChoiceWord -> <<addAttributeDefinition(ci, r.v), supers>>
              [] OTHER -> <<ci, supers>>)))

PlainAttributeParsed(a) ==
    \/ /\ a.ok
       /\ classInfo' = a.v[1]
       /\ superClasses' = a.v[2]
       /\ sc' = a.s
       /\ pc' = "attr"
       /\ UNCHANGED err
    \/ /\ ~a.ok
       /\ Throw(a)
       /\ UNCHANGED <<classInfo, superClasses>>

AttributeWord(r) ==
    \/ /\ ~r.ok
       /\ Throw(r)
       /\ UNCHANGED <<classInfo, superClasses, mstate>>
    \/ /\ r.ok /\ r.v.type = "CBrace"
       /\ sc' = r.s
       /\ pc' = "desc"
       /\ UNCHANGED <<classInfo, superClasses, mstate, err>>
    \/ /\ r.ok /\ r.v.type = "Word" /\ r.v.data = ModelWord
       /\ sc' = r.s
       /\ pc' = "parseModel"
       /\ mstate' = "Unattempted"
       /\ UNCHANGED <<classInfo, superClasses, err>>
    \/ /\ r.ok /\ r.v.type = "Word" /\ r.v.data # ModelWord
       /\ PlainAttributeParsed(plainAttribute(r.s, r.v.data, classInfo, superClasses))
       /\ UNCHANGED mstate

\* DefParser::parseAttribute.  A model attribute goes on in parseModel.
ParseAttribute ==
    /\ pc = "attr"
    /\ AttributeWord(expect({"Word", "CBrace"}, nextTokenIgnoringNewlines(sc), "def"))
    /\ UNCHANGED <<decls, input, baseClasses, definitions, retDef, result,
                   progressLog, warnings, snap, modernErr, legacyErr, live, depth,
                   log>>

\* const auto snapshot = m_tokenizer.snapshot(); line = ...; column = ...
takeSnapshot(s) == [state |-> s, line |-> s.line, column |-> s.col]

ModelOpened(r) ==
    \/ /\ r.ok
       /\ snap' = takeSnapshot(r.s)
       /\ sc' = r.s
       /\ mstate' = "TryingModern"
       /\ modernErr' = NoErr
       /\ legacyErr' = NoErr
       /\ pc' = "modern"
       /\ UNCHANGED err
    \/ /\ ~r.ok
       /\ Throw(r)
       /\ UNCHANGED <<snap, mstate, modernErr, legacyErr>>

\* parseModel: the opening parenthesis and the snapshot.
ParseModelOpen ==
    /\ pc = "parseModel"
    /\ ModelOpened(expect({"OParenthesis"}, nextToken(sc), "def"))
    /\ UNCHANGED <<decls, input, classInfo, superClasses, baseClasses, definitions,
                   retDef, result, progressLog, warnings, live, depth, log>>

\* After parseModel returned m: setModelDefinition and the semicolon (e).
ModelDone(m, e) ==
    /\ classInfo' = setModelDefinition(classInfo, m)
    /\ mstate' = "Success"
    /\ \/ /\ e.ok
          /\ sc' = e.s
          /\ pc' = "attr"
          /\ UNCHANGED err
       \/ /\ ~e.ok
          /\ Throw(e)

restoreNothing(s, snapshot) == s

\* m_tokenizer.restore(snapshot), with the scanner at s
restore(s, snapshot) == snapshot.state

\* The catch clause begins with the restore, so the legacy attempt finds
\* the scanner restored.
ModernTriedThenLegacy(r) ==
    /\ modernErr' = r.e
    /\ sc' = restore(r.s, snap)
    /\ mstate' = "TryingLegacy"
    /\ pc' = "legacy"
    /\ UNCHANGED <<classInfo, err>>

ModernTried(r) ==
    \/ /\ r.ok
       /\ ModelDone(r.v, attributeEnd(r.s))
       /\ UNCHANGED modernErr
    \/ /\ ~r.ok
       /\ modernErr' = r.e
       /\ sc' = restore(r.s, snap)
       /\ mstate' = "TryingLegacy"
       /\ pc' = "legacy"
       /\ UNCHANGED <<classInfo, err>>

\* parseModel: the modern grammar.
ParseModelModern ==
    /\ pc = "modern"
    /\ ModernTried(modernAttempt(sc))
    /\ UNCHANGED <<decls, input, superClasses, baseClasses, definitions, retDef,
                   result, progressLog, warnings, snap, legacyErr, live, depth, log>>

warnNothing(ws, line, column, expression) == ws

\* status.warn(line, column, "Legacy model expressions are deprecated, ...")
warn(ws, line, column, expression) ==
    Append(ws, [line |-> line, column |-> column, msg |-> expression])

rethrownLegacy(e, legacy) == legacy

\* catch (const ParserException&) { m_tokenizer.restore(snapshot); throw e; }
rethrown(e, legacy) == e

LegacyTriedAgain(r) ==
    \/ /\ r.ok
       /\ warnings' = warn(warnings, snap.line, snap.column, r.v)
       /\ ModelDone(r.v, attributeEnd(r.s))
       /\ UNCHANGED legacyErr
    \/ /\ ~r.ok
       /\ legacyErr' = r.e
       /\ mstate' = "TryingModern"
       /\ pc' = "modern"
       /\ sc' = restore(r.s, snap)
       /\ UNCHANGED <<classInfo, warnings, err>>

LegacyTried(r) ==
    \/ /\ r.ok
       /\ warnings' = warn(warnings, snap.line, snap.column, r.v)
       /\ ModelDone(r.v, attributeEnd(r.s))
       /\ UNCHANGED legacyErr
    \/ /\ ~r.ok
       /\ legacyErr' = r.e
       /\ mstate' = "FailPropagateOriginal"
       /\ Throw([s |-> restore(r.s, snap), e |-> rethrown(modernErr, r.e)])
       /\ UNCHANGED <<classInfo, warnings>>

\* parseModel: the legacy grammar.
ParseModelLegacy ==
    /\ pc = "legacy"
    /\ LegacyTried(legacyAttempt(sc))
    /\ UNCHANGED <<decls, input, superClasses, baseClasses, definitions, retDef,
                   result, progressLog, snap, modernErr, live, depth, log>>

DescriptionParsed(r) ==
    \/ /\ r.ok
       /\ classInfo' = r.v
       /\ sc' = r.s
       /\ pc' = "final"
       /\ UNCHANGED err
    \/ /\ ~r.ok
       /\ Throw(r)
       /\ UNCHANGED classInfo

\* parseDefinition: the description and the close marker.
ParseDescription ==
    /\ pc = "desc"
    /\ DescriptionParsed(parseDefinitionEnd(sc, classInfo))
    /\ UNCHANGED <<decls, input, superClasses, baseClasses, definitions, retDef,
                   result, progressLog, warnings, mstate, snap, modernErr,
                   legacyErr, live, depth, log>>

FinalizeStoringResolved ==
    /\ pc = "final"
    /\ \/ /\ classInfo.hasColor
          /\ retDef' = resolveAndBuild(classInfo, baseClasses, superClasses)
          /\ live' = live + 1
          /\ pc' = "ret"
          /\ log' = Append(log, [outcome |-> retDef'.kind, name |-> classInfo.name,
                                 pos |-> sc.pos])
          /\ UNCHANGED <<baseClasses, depth>>
       \/ /\ ~classInfo.hasColor
          /\ baseClasses' = storeBaseClass(baseClasses,
                                resolveBaseClasses(classInfo, baseClasses, superClasses))
          /\ depth' = depth + 1
          /\ pc' = "call"
          /\ log' = Append(log, [outcome |-> "base", name |-> classInfo.name,
                                 pos |-> sc.pos])
          /\ UNCHANGED <<retDef, live>>
    /\ UNCHANGED <<decls, input, sc, classInfo, superClasses, definitions, result,
                   err, progressLog, warnings, mstate, snap, modernErr, legacyErr>>

FinalizeStoringEveryClass ==
    /\ pc = "final"
    /\ baseClasses' = storeBaseClass(baseClasses, classInfo)
    /\ \/ /\ classInfo.hasColor
          /\ retDef' = resolveAndBuild(classInfo, baseClasses, superClasses)
          /\ live' = live + 1
          /\ pc' = "ret"
          /\ log' = Append(log, [outcome |-> retDef'.kind, name |-> classInfo.name,
                                 pos |-> sc.pos])
          /\ UNCHANGED depth
       \/ /\ ~classInfo.hasColor
          /\ depth' = depth + 1
          /\ pc' = "call"
          /\ log' = Append(log, [outcome |-> "base", name |-> classInfo.name,
                                 pos |-> sc.pos])
          /\ UNCHANGED <<retDef, live>>
    /\ UNCHANGED <<decls, input, sc, classInfo, superClasses, definitions, result,
                   err, progressLog, warnings, mstate, snap, modernErr, legacyErr>>

\* parseDefinition: a descriptor is returned, or the class is stored as a
\* base class and parseDefinition calls itself.
Finalize ==
    /\ pc = "final"
    /\ \/ /\ classInfo.hasColor
          /\ retDef' = resolveAndBuild(classInfo, baseClasses, superClasses)
          /\ live' = live + 1
          /\ pc' = "ret"
          /\ log' = Append(log, [outcome |-> retDef'.kind, name |-> classInfo.name,
                                 pos |-> sc.pos])
          /\ UNCHANGED <<baseClasses, depth>>
       \/ /\ ~classInfo.hasColor
          /\ baseClasses' = storeBaseClass(baseClasses, classInfo)
          /\ depth' = depth + 1
          /\ pc' = "call"
          /\ log' = Append(log, [outcome |-> "base", name |-> classInfo.name,
                                 pos |-> sc.pos])
          /\ UNCHANGED <<retDef, live>>
    /\ UNCHANGED <<decls, input, sc, classInfo, superClasses, definitions, result,
                   err, progressLog, warnings, mstate, snap, modernErr, legacyErr>>

\* Tokenizer::progress: the part of the input behind the cursor.
progress(s) == [num |-> s.pos - 1, den |-> Len(input)]

reportRemaining(reports, s) ==
    Append(reports, [num |-> Len(input) - (s.pos - 1), den |-> Len(input)])

\* status.progress(m_tokenizer.progress())
reportProgress(reports, s) == Append(reports, progress(s))

\* doParseDefinitions: after a parseDefinition call returned.
Loop ==
    /\ pc = "ret"
    /\ progressLog' = reportProgress(progressLog, sc)
    /\ \/ /\ retDef # NoDefinition
          /\ definitions' = Append(definitions, retDef)
          /\ depth' = 1
          /\ pc' = "call"
          /\ UNCHANGED result
       \/ /\ retDef = NoDefinition
          /\ result' = "list"
          /\ depth' = 0
          /\ pc' = "done"
          /\ UNCHANGED definitions
    /\ UNCHANGED <<decls, input, sc, classInfo, superClasses, baseClasses, retDef,
                   err, warnings, mstate, snap, modernErr, legacyErr, live, log>>

kdl_vec_keep(defs) == defs

\* kdl::vec_clear_and_delete(definitions): every element deleted, the list
\* cleared
vec_clear_and_delete(defs) == <<>>

\* doParseDefinitions: catch (...) { vec_clear_and_delete(definitions); throw; }
Catch ==
    /\ pc = "throw"
    /\ definitions' = vec_clear_and_delete(definitions)
    /\ live' = live - (Len(definitions) - Len(definitions'))
    /\ result' = "error"
    /\ depth' = 0
    /\ pc' = "failed"
    /\ UNCHANGED <<decls, input, sc, classInfo, superClasses, baseClasses, retDef,
                   err, progressLog, warnings, mstate, snap, modernErr, legacyErr,
                   log>>

Next ==
    \/ ParseDefinitionSkip
    \/ ParseHeader
    \/ ParseAttributes
    \/ ParseAttribute
    \/ ParseModelOpen
    \/ ParseModelModern
    \/ ParseModelLegacy
    \/ ParseDescription
    \/ Finalize
    \/ Loop
    \/ Catch

Spec == Init /\ [][Next]_vars

\* doParseDefinitions has returned its list or raised its error.
Terminated == pc \in {"done", "failed"}

\* A step of parseDefinition: any step but the loop's and the catch's.
ParseStep == pc \notin {"ret", "throw"} /\ Next

\* The parser is one sequential program: while a step is possible, one is
\* taken.  The last conjunct is weak fairness of ParseStep, with
\* ENABLED <<ParseStep>>_vars written as the places it is possible at:
\* every place but "ret", "throw" and the two last ones has a step of
\* parseDefinition, and that step moves pc or the scanner.
FairSpec ==
    /\ Spec
    /\ WF_vars(Loop)
    /\ WF_vars(Catch)
    /\ \/ []<>(pc \in {"ret", "throw"} \/ Terminated)
       \/ []<><<ParseStep>>_vars

(***************************************************************************)
(* Properties                                                              *)
(***************************************************************************)
\* The line and the column of the character at pos, counted from the text.
LineAt(pos) == 1 + Cardinality({i \in 1..(pos - 1) : input[i] = "\n"})

ColumnAt(pos) == pos - (CHOOSE m \in 0..(pos - 1) :
                           /\ m = 0 \/ input[m] = "\n"
                           /\ \A i \in (m + 1)..(pos - 1) : input[i] # "\n")

\* C1: when the parse of a declaration raises a lexical or syntax error,
\* doParseDefinitions deletes every descriptor it had accumulated, hands no
\* list to its caller, lets the same exception go on to the caller with the
\* scanner and the registry as the failure left them, and does nothing
\* afterwards: no later declaration is parsed.
C1_ErrorReleasesEverything ==
    [][/\ pc = "throw" =>
            /\ err.kind \in {"lexical", "syntax"}
            /\ pc' = "failed"
            /\ definitions' = <<>>
            /\ live' = 0
            /\ result' = "error"
            /\ err' = err
            /\ <<sc, baseClasses, log, progressLog>>' = <<sc, baseClasses, log, progressLog>>
       /\ pc = "failed" => UNCHANGED vars
       /\ pc' = "failed" => pc = "throw"
       /\ result' = "list" => pc # "throw" /\ pc' = "done"]_vars

\* An error was raised after a descriptor had been accumulated, and the
\* caller has it.
C1_Witness ==
    /\ pc = "failed"
    /\ progressLog # <<>>
    /\ \E k \in 1..Len(log) : log[k].outcome # "base"
    /\ definitions = <<>>
    /\ live = 0

\* C2: when the modern grammar and then the legacy grammar fail on a model
\* clause, the exception that leaves parseModel and reaches the caller is the
\* one the modern attempt raised, with the scanner back at the snapshot; the
\* legacy attempt's exception is not the one delivered, and no warning was
\* sent for the clause.
C2_ModernErrorSurfaces ==
    mstate = "FailPropagateOriginal" =>
        /\ pc \in {"throw", "failed"}
        /\ err = modernErr
        /\ err.by = "modern"
        /\ legacyErr.by = "legacy"
        /\ err # legacyErr
        /\ sc = snap.state
        /\ \A i \in 1..Len(warnings) :
               <<warnings[i].line, warnings[i].column>> # <<snap.line, snap.column>>

\* Both grammars failed and the caller has the exception.
C2_Witness ==
    /\ pc = "failed"
    /\ mstate = "FailPropagateOriginal"
    /\ modernErr # NoErr
    /\ legacyErr # NoErr
    /\ <<modernErr.line, modernErr.col>> # <<legacyErr.line, legacyErr.col>>

\* The warnings sent for the model clause whose snapshot is snap.
ClauseWarnings ==
    {i \in 1..Len(warnings) :
        warnings[i].line = snap.line /\ warnings[i].column = snap.column}

\* C3: when parseModel returned, the clause has a model definition; if the
\* modern grammar had failed (the legacy grammar succeeded), exactly one
\* warning was sent for the clause, with the line and the column of the
\* character after the clause's opening parenthesis, and no exception of
\* either grammar is in flight; if the modern grammar succeeded, no warning
\* was sent for the clause.
C3_LegacySuccessWarnsOnce ==
    mstate = "Success" =>
        /\ classInfo.hasModelDefinition
        /\ pc \in {"throw", "failed"} => err.by = "def"
        /\ input[snap.state.pos - 1] = "("
        /\ snap.line = LineAt(snap.state.pos)
        /\ snap.column = ColumnAt(snap.state.pos)
        /\ modernErr # NoErr => Cardinality(ClauseWarnings) = 1
        /\ modernErr = NoErr => ClauseWarnings = {}

\* The legacy grammar succeeded where the modern one had failed, on a line
\* other than the first, and the parse goes on.
C3_Witness ==
    /\ mstate = "Success"
    /\ modernErr # NoErr
    /\ pc = "attr"
    /\ Len(warnings) = 1
    /\ warnings[1].line > 1

\* Where declaration i stands in the text: the index of the '/' that ends
\* its close marker.  The scanner stands there when the declaration is
\* finalized.
CloseAt(i) == Len(RenderAll(SubSeq(decls, 1, i))) - Len(decls[i].sep)

\* The declaration whose close marker the scanner read last before pos.
DeclClosedAt(pos) == CHOOSE i \in 1..Len(decls) : CloseAt(i) = pos

Range(seq) == {seq[i] : i \in 1..Len(seq)}

Names(seq) == [i \in 1..Len(seq) |-> seq[i].name]

\* What the text of declaration d says: the paths of its model clauses and
\* the names of its choice attributes.
ModelPaths(d) == Names(SelectSeq([i \in 1..Len(d.attrs) |->
                          IF d.attrs[i].k = "model"
                          THEN [name |-> d.attrs[i].arg, is |-> TRUE]
                          ELSE [name |-> <<>>, is |-> FALSE]], LAMBDA a : a.is))

ChoiceNames(d) == Names(SelectSeq([i \in 1..Len(d.attrs) |->
                           IF d.attrs[i].k = "choice"
                           THEN [name |-> d.attrs[i].arg, is |-> TRUE]
                           ELSE [name |-> <<>>, is |-> FALSE]], LAMBDA a : a.is))

\* The class info ci is what parsing declaration d gives, as far as name,
\* model and attributes go.
ParsedFrom(ci, d) ==
    /\ ci.name = d.name
    /\ ci.hasColor = (d.color # <<>>)
    /\ ci.hasModelDefinition = (ModelPaths(d) # <<>>)
    /\ ci.hasModelDefinition =>
           ci.modelDefinition.path = ModelPaths(d)[Len(ModelPaths(d))]
    /\ Names(SelectSeq(ci.attributes, LAMBDA a : a.kind = "choice")) = ChoiceNames(d)

\* C4: when the parse succeeds, the list holds one descriptor for each
\* declaration of the input that has a color, in the order of the input,
\* and none for a declaration without a color; each of those is in the
\* registry under its name.
C4_OneDescriptorPerColoredDeclaration ==
    pc = "done" =>
        /\ Names(definitions) = Names(SelectSeq(decls, LAMBDA d : d.color # <<>>))
        /\ \A i \in 1..Len(decls) :
               decls[i].color = <<>> => decls[i].name \in DOMAIN baseClasses

\* The base classes a declaration names that are registered, and the model
\* definitions and attributes they offer.
RegisteredSupers == Range(superClasses) \cap DOMAIN baseClasses

InheritedModels ==
    {baseClasses[n].modelDefinition :
        n \in {m \in RegisteredSupers : baseClasses[m].hasModelDefinition}}

InheritedAttributes ==
    {a \in UNION {Range(baseClasses[n].attributes) : n \in RegisteredSupers} :
        a.name \notin AttributeNames(classInfo)}

\* The descriptor keeps what the declaration set explicitly.
KeepsExplicitFields ==
    /\ retDef.name = classInfo.name
    /\ retDef.color = classInfo.color
    /\ retDef.description = classInfo.description
    /\ Len(retDef.attributes) >= Len(classInfo.attributes)
    /\ SubSeq(retDef.attributes, 1, Len(classInfo.attributes)) = classInfo.attributes
    /\ classInfo.hasSize => retDef.size = classInfo.size
    /\ classInfo.hasModelDefinition /\ retDef.kind = "point" =>
           retDef.modelDefinition = classInfo.modelDefinition

\* The descriptor takes the attributes the declaration left unset.
TakesInheritedAttributes ==
    /\ \A a \in InheritedAttributes :
           \E b \in Range(retDef.attributes) : b.name = a.name /\ b \in InheritedAttributes
    /\ \A j \in (Len(classInfo.attributes) + 1)..Len(retDef.attributes) :
           retDef.attributes[j] \in InheritedAttributes

\* C5 as stated: the descriptor of a colored declaration keeps every field
\* the declaration set and takes from its registered bases every field it
\* left unset, the model definition among them.
C5_TakesEveryUnsetField ==
    (pc = "ret" /\ retDef # NoDefinition) =>
        /\ KeepsExplicitFields
        /\ TakesInheritedAttributes
        /\ (~classInfo.hasModelDefinition /\ InheritedModels # {}) =>
               /\ "modelDefinition" \in DOMAIN retDef
               /\ retDef.modelDefinition \in InheritedModels

\* C5, amended: the descriptor of a colored declaration keeps every field
\* the declaration set and takes from its registered bases every field it
\* left unset that a descriptor of its kind carries: the attributes always,
\* the model definition when it is a point descriptor.  A brush descriptor
\* carries no model definition, inherited or not.
C5_TakesUnsetFieldsOfItsKind ==
    (pc = "ret" /\ retDef # NoDefinition) =>
        /\ KeepsExplicitFields
        /\ TakesInheritedAttributes
        /\ retDef.kind = "point" /\ ~classInfo.hasModelDefinition =>
               IF InheritedModels # {} THEN retDef.modelDefinition \in InheritedModels
               ELSE retDef.modelDefinition = NoValue
        /\ retDef.kind = "brush" => "modelDefinition" \notin DOMAIN retDef

\* A point descriptor took the model definition of its base, and another
\* kept its own model definition although its bases offer one.
C5_Witness ==
    /\ pc = "ret"
    /\ retDef # NoDefinition
    /\ retDef.kind = "point"
    /\ InheritedModels # {}
    /\ \/ ~classInfo.hasModelDefinition /\ retDef.modelDefinition \in InheritedModels
       \/ /\ classInfo.hasModelDefinition
          /\ retDef.modelDefinition \notin InheritedModels
          /\ InheritedAttributes # {}

\* The finalized declarations that went to the registry under name n, as
\* indices into log.
StoredAs(n) == {k \in 1..Len(log) : log[k].outcome = "base" /\ log[k].name = n}

LastOf(S) == CHOOSE k \in S : \A l \in S : l <= k

\* C6: the registry holds, under each name, the colorless declaration of
\* that name that was finalized last: a declaration stored under a name
\* already present replaces that entry, and the entries under other names
\* stay what they were.  So a declaration that names a base declared twice
\* resolves against the later one.
C6_RegistryLastWriteWins ==
    /\ DOMAIN baseClasses = {log[k].name : k \in {l \in 1..Len(log) : log[l].outcome = "base"}}
    /\ \A n \in DOMAIN baseClasses :
           ParsedFrom(baseClasses[n], decls[DeclClosedAt(log[LastOf(StoredAs(n))].pos)])

\* A colored declaration is about to resolve against a base that two
\* declarations with different contents were stored as.
C6_Witness ==
    /\ pc = "final"
    /\ classInfo.hasColor
    /\ \E n \in RegisteredSupers :
           \E k, l \in StoredAs(n) :
               /\ k < l
               /\ ~ParsedFrom(baseClasses[n], decls[DeclClosedAt(log[k].pos)])

\* The colorless declarations whose close marker lies before pos.
ClosedBefore(pos) ==
    {i \in 1..Len(decls) : decls[i].color = <<>> /\ CloseAt(i) < pos}

\* C7: when a colored declaration is resolved, every registry entry is a
\* colorless declaration whose text ends before the scanner's position, and
\* whatever the descriptor has that the declaration did not set comes from
\* such a declaration: one that stands later in the input gives nothing to
\* a descriptor built before it.
C7_NoForwardReferences ==
    /\ (pc = "final" /\ classInfo.hasColor) =>
           \A n \in DOMAIN baseClasses :
               \E i \in ClosedBefore(sc.pos) : ParsedFrom(baseClasses[n], decls[i])
    /\ (pc = "ret" /\ retDef # NoDefinition) =>
           /\ \A j \in (Len(classInfo.attributes) + 1)..Len(retDef.attributes) :
                  \E i \in ClosedBefore(sc.pos) :
                      /\ decls[i].name \in Range(superClasses)
                      /\ retDef.attributes[j].name \in Range(ChoiceNames(decls[i]))
           /\ (retDef.kind = "point" /\ ~classInfo.hasModelDefinition
                 /\ retDef.modelDefinition # NoValue) =>
                  \E i \in ClosedBefore(sc.pos) :
                      /\ decls[i].name \in Range(superClasses)
                      /\ retDef.modelDefinition.path \in Range(ModelPaths(decls[i]))

\* A colored declaration is resolved while the registry has entries, and a
\* base it names is declared only later in the input.
C7_Witness ==
    /\ pc = "ret"
    /\ retDef # NoDefinition
    /\ baseClasses # <<>>
    /\ \E i \in 1..Len(decls) :
           /\ decls[i].color = <<>>
           /\ CloseAt(i) > sc.pos
           /\ decls[i].name \in Range(superClasses)
           /\ decls[i].name \notin DOMAIN baseClasses

\* The outcome logged for a declaration is the one its text calls for.
OutcomeFor(d) ==
    IF d.color = <<>> THEN "base"
    ELSE IF d.size \notin {"none", "?"} THEN "point" ELSE "brush"

\* The descriptors built so far: those in the list and the one returned
\* but not yet pushed.
Built == definitions \o (IF pc = "ret" /\ retDef # NoDefinition THEN <<retDef>> ELSE <<>>)

\* C8: every declaration parsed to its close marker is finalized once, as
\* exactly one of: a point descriptor, if and only if it has a color and a
\* size; a brush descriptor, if and only if it has a color and no size; a
\* registry entry and no descriptor, if and only if it has no color.
C8_ExactlyOneOutcome ==
    /\ \A k \in 1..Len(log) :
           /\ log[k].outcome = OutcomeFor(decls[DeclClosedAt(log[k].pos)])
           /\ log[k].name = decls[DeclClosedAt(log[k].pos)].name
           /\ \A l \in 1..(k - 1) : log[l].pos < log[k].pos
           /\ log[k].outcome = "base" => log[k].name \in DOMAIN baseClasses
    /\ pc \notin {"failed"} =>
           [i \in 1..Len(Built) |-> [outcome |-> Built[i].kind, name |-> Built[i].name]]
             = [i \in 1..Len(SelectSeq(log, LAMBDA e : e.outcome # "base")) |->
                  [outcome |-> SelectSeq(log, LAMBDA e : e.outcome # "base")[i].outcome,
                   name |-> SelectSeq(log, LAMBDA e : e.outcome # "base")[i].name]]
    /\ \A i \in 1..Len(Built) :
           /\ Built[i].kind = "point" <=> "size" \in DOMAIN Built[i]
           /\ Built[i].kind \in {"point", "brush"}

\* The three outcomes have all happened in one parse.
C8_Witness ==
    /\ pc = "done"
    /\ {log[k].outcome : k \in 1..Len(log)} = {"point", "brush", "base"}
    /\ Len(definitions) = 2

\* v = 2^i, told without computing a power that an int cannot hold.
RECURSIVE IsTwoToThe(_, _)
IsTwoToThe(v, i) ==
    IF i = 0 THEN v = 1
    ELSE v > 0 /\ v % 2 = 0 /\ IsTwoToThe(v \div 2, i - 1)

FlagValuesAscend(options) ==
    \A i \in 1..Len(options) :
        /\ IsTwoToThe(options[i].value, i - 1)
        /\ \A l \in 1..(i - 1) : options[l].value < options[i].value

\* C9: in the spawnflags attribute of a parsed header, the i-th option
\* (counted from 0) has the value 2^i, the values are pairwise distinct and
\* ascend in the order of declaration, and an option is unnamed exactly when
\* its entry is a minus sign, which still takes its bit position.
C9_SpawnflagValuesArePowersOfTwo ==
    \A j \in 1..Len(classInfo.attributes) :
        classInfo.attributes[j].kind = "flags" =>
            /\ FlagValuesAscend(classInfo.attributes[j].options)
            /\ Len(decls) = 1 =>
                   /\ Len(classInfo.attributes[j].options) = Len(decls[1].flags)
                   /\ \A i \in 1..Len(decls[1].flags) :
                          classInfo.attributes[j].options[i].name = <<>>
                            <=> decls[1].flags[i] = "-"

\* C10: a declaration whose header is the name, a color and the newline,
\* without bounds, '?' or spawnflags, is accepted, and what it gives is a
\* brush descriptor.
C10_ColorThenNewlineIsBrush ==
    (/\ Len(decls) = 1
     /\ decls[1].color # <<>>
     /\ decls[1].size = "none"
     /\ decls[1].flags = <<>>) =>
        /\ pc \notin {"throw", "failed"}
        /\ pc = "done" => Names(definitions) = <<decls[1].name>>
        /\ \A i \in 1..Len(definitions) : definitions[i].kind = "brush"

\* The words parseAttribute has a branch for.
AttributeWords == {"default", "base", "choice", "model"}

\* C11: no declaration is parsed to its end with an attribute in its block
\* whose leading word is other than default, base, choice and model: such
\* a word is a syntax error and the parse fails.
C11_UnknownAttributeIsError ==
    \A k \in 1..Len(log) :
        \A a \in Range(decls[DeclClosedAt(log[k].pos)].attrs) : a.k \in AttributeWords

\* The scanner state when the cursor is on the character at p.
At(p) == [pos |-> p, line |-> LineAt(p), col |-> ColumnAt(p)]

\* A token can start at p: the text begins there or a delimiter stands
\* before it.
TokenStart(p) == p = 1 \/ input[p - 1] \in WordDelims

\* Read at p, the scanner raises the lexical error that names the
\* character at p with its line and column.
LexicalErrorAt(p) ==
    /\ emitToken(At(p)).type = "LexError"
    /\ ParserException("lexical", emitToken(At(p)), "def")
         = [kind |-> "lexical", line |-> LineAt(p), col |-> ColumnAt(p),
            by |-> "def", what |-> <<input[p]>>]

\* C12 as stated: wherever a token can start with '@', '[' or ']', the
\* scanner raises a lexical error naming the character and its 1-based
\* line and column, and no input with such a character parses to the end.
C12_UnexpectedCharacterIsLexicalError ==
    /\ \A p \in 1..Len(input) :
           (TokenStart(p) /\ input[p] \in {"@", "[", "]"}) => LexicalErrorAt(p)
    /\ pc = "done" =>
           \A p \in 1..Len(input) : ~(TokenStart(p) /\ input[p] \in {"@", "[", "]"})

\* C12, amended: the characters that start no token are the word
\* delimiters without a rule of their own, '[' and ']'.  Where a token can
\* start with one of them the scanner raises a lexical error naming the
\* character and its 1-based line and column; every lexical error of a
\* parse is such an error and fails the parse, and no input with such a
\* character parses to the end.  Any other character, '@' for one, starts
\* a word.
C12_BracketIsLexicalError ==
    /\ \A p \in 1..Len(input) :
           /\ (TokenStart(p) /\ input[p] \in {"[", "]"}) => LexicalErrorAt(p)
           /\ input[p] = "@" =>
                  /\ emitToken(At(p)).type = "Word"
                  /\ emitToken(At(p)).begin = p
    /\ err.kind = "lexical" =>
           /\ pc \in {"throw", "failed"}
           /\ err.what \in {<<"[">>, <<"]">>}
           /\ \E p \in 1..Len(input) :
                  /\ <<input[p]>> = err.what
                  /\ At(p) = [pos |-> p, line |-> err.line, col |-> err.col]
    /\ pc = "done" => \A p \in 1..Len(input) : input[p] \notin {"[", "]"}

\* A parse has failed on a lexical error raised below the first line.
C12_Witness ==
    /\ pc = "failed"
    /\ err.kind = "lexical"
    /\ err.line > 1
    /\ err.col = 1
    /\ err.what = <<"]">>

\* The numbers a color or size clause is written with, as texts.
RECURSIVE FieldsFrom(_, _, _)
FieldsFrom(text, field, fields) ==
    IF text = <<>> THEN (IF field = <<>> THEN fields ELSE Append(fields, field))
    ELSE IF Head(text) \in {" ", "(", ")"}
    THEN FieldsFrom(Tail(text), <<>>, IF field = <<>> THEN fields ELSE Append(fields, field))
    ELSE FieldsFrom(Tail(text), Append(field, Head(text)), fields)

Fields(text) == FieldsFrom(text, <<>>, <<>>)

\* The declaration the descriptor in retDef was built from.
Returned == decls[DeclClosedAt(sc.pos)]

SameValue(a, b) == a.num * b.den = b.num * a.den

\* stored is what the claim calls for when the component was written raw.
StoredColorComponent(stored, raw) ==
    IF raw.num > raw.den
    THEN stored.num * raw.den * 255 = raw.num * stored.den
    ELSE SameValue(stored, raw)

\* C13: each of the three components of a parsed color is judged on its
\* own: written greater than 1.0 it is stored divided by 255, written less
\* than or equal to 1.0 it is stored as written; alpha is 1.0.
C13_ColorComponentsScaledIndependently ==
    (pc = "ret" /\ retDef # NoDefinition) =>
        /\ Len(retDef.color) = 4
        /\ \A i \in 1..3 :
               StoredColorComponent(retDef.color[i], toFloat(Fields(Returned.color)[i]))
        /\ retDef.color[4] = One

\* A color with a component above 1.0, one equal to 1.0 and one below it
\* was stored.
C13_Witness ==
    /\ pc = "ret"
    /\ retDef # NoDefinition
    /\ \E i, j, k \in 1..3 :
           /\ Less(One, toFloat(Fields(Returned.color)[i]))
           /\ SameValue(One, toFloat(Fields(Returned.color)[j]))
           /\ Less(toFloat(Fields(Returned.color)[k]), One)
           /\ Less(retDef.color[i], retDef.color[k])

\* The two corners of the returned declaration's size clause, as written.
CornerA(i) == toFloat(Fields(SizeText(Returned.size))[i])

CornerB(i) == toFloat(Fields(SizeText(Returned.size))[3 + i])

\* C14: whichever way round the two corners of a size clause are written,
\* the stored box has, in each of the three components, min the smaller
\* and max the larger of the two corners' components, so min <= max.
C14_BoundsMinBelowMax ==
    (pc = "ret" /\ retDef # NoDefinition /\ retDef.kind = "point") =>
        \A i \in 1..3 :
            /\ ~Less(retDef.size.max[i], retDef.size.min[i])
            /\ SameValue(retDef.size.min[i], CornerA(i))
                 \/ SameValue(retDef.size.min[i], CornerB(i))
            /\ SameValue(retDef.size.max[i], CornerA(i))
                 \/ SameValue(retDef.size.max[i], CornerB(i))
            /\ ~Less(CornerA(i), retDef.size.min[i])
            /\ ~Less(CornerB(i), retDef.size.min[i])
            /\ ~Less(retDef.size.max[i], CornerA(i))
            /\ ~Less(retDef.size.max[i], CornerB(i))

\* A box was stored whose corners were written with one component in
\* ascending and another in descending order.
C14_Witness ==
    /\ pc = "ret"
    /\ retDef # NoDefinition
    /\ retDef.kind = "point"
    /\ \E i, j \in 1..3 :
           /\ Less(CornerA(i), CornerB(i))
           /\ Less(CornerB(j), CornerA(j))
           /\ Less(retDef.size.min[j], retDef.size.max[j])

\* C15: the progress values sent to the status collaborator during one
\* call of doParseDefinitions never decrease, whatever happened between two
\* reports: a model clause backtracked to its snapshot, colorless
\* declarations consumed by parseDefinition calling itself.  Each value is
\* a part of the same whole, the length of the input.
C15_ProgressNeverDecreases ==
    \A j \in 1..Len(progressLog) :
        /\ progressLog[j].den = Len(input)
        /\ progressLog[j].num \in 0..Len(input)
        /\ \A i \in 1..(j - 1) : progressLog[i].num <= progressLog[j].num

\* Progress was reported twice and grew in between, in a parse that
\* backtracked a model clause and stored a colorless declaration.
C15_Witness ==
    /\ pc = "done"
    /\ warnings # <<>>
    /\ \E k \in 1..Len(log) : log[k].outcome = "base"
    /\ Len(progressLog) >= 2
    /\ progressLog[1].num < progressLog[Len(progressLog)].num

\* The parser's places, ranked so that a step that leaves the scanner where
\* it is goes to a place of lower rank.
Rank ==
    CASE pc \in {"header", "attr", "parseModel"} -> 13
      [] pc = "attrs" -> 12
      [] pc = "desc" -> 11
      [] pc = "final" -> 10
      [] pc = "ret" /\ retDef # NoDefinition -> 9
      [] pc = "call" -> 8
      [] pc = "ret" /\ retDef = NoDefinition -> 7
      [] pc = "modern" -> 6
      [] pc = "legacy" -> 5
      [] pc = "throw" -> 1
      [] pc \in {"done", "failed"} -> 0

\* Every token the scanner returns, read from any place of the text, ends
\* behind the place it was read from, unless the read raised an error.
TokensAdvance ==
    \A p \in 1..Len(input) :
        With(emitToken(At(p)), LAMBDA t : t.type # "LexError" => t.next.pos > p)

\* C16: doParseDefinitions terminates on every input: it returns the list
\* after the scanner reached the end of the input, or it raises an error.
\* Every token read moves the scanner on, and every step of the parser
\* either moves the scanner on or goes to a place of lower rank, so no loop
\* and no recursion goes on for ever.  The text never changes, so what
\* holds of its tokens is stated of the first state.
C16_Terminates ==
    /\ TokensAdvance
    /\ [][\/ sc'.pos > sc.pos
          \/ sc'.pos = sc.pos /\ Rank' < Rank]_vars
    /\ [](pc = "done" => sc.pos > Len(input) /\ result = "list")
    /\ <>Terminated

\* A parse that went through a colorless declaration, an attribute block
\* and a spawnflags clause has returned its list.
C16_Witness ==
    /\ pc = "done"
    /\ \E k \in 1..Len(log) : log[k].outcome = "base"
    /\ \E i \in 1..Len(definitions) : definitions[i].attributes # <<>>


\* The transitions of the resolution of one model clause.
ResolutionSteps ==
    { <<"Unattempted", "TryingModern">>,
      <<"TryingModern", "Success">>,
      <<"TryingModern", "TryingLegacy">>,
      <<"TryingLegacy", "Success">>,
      <<"TryingLegacy", "FailPropagateOriginal">> }

\* C17: the resolution of a model clause follows only the transitions
\* Unattempted -> TryingModern -> (Success | TryingLegacy) and
\* TryingLegacy -> (Success | FailPropagateOriginal).  The legacy grammar
\* is tried only after the modern attempt of the same clause failed, at
\* most once, and a resolution that began ends in Success or in
\* FailPropagateOriginal; the next resolution begins at Unattempted again.
C17_ModelResolutionSteps ==
    /\ [][mstate' # mstate =>
            \/ <<mstate, mstate'>> \in ResolutionSteps
            \/ mstate = "Success" /\ mstate' \in {"Unattempted", "TryingModern"}]_vars
    /\ [][mstate' = "TryingLegacy" /\ mstate # "TryingLegacy" =>
            /\ mstate = "TryingModern"
            /\ modernErr = NoErr
            /\ modernErr' # NoErr
            /\ snap' = snap]_vars
    /\ [][(mstate \in {"TryingModern", "TryingLegacy"}) => mstate' # mstate]_vars
    /\ []((mstate = "TryingModern") <=> (pc = "modern"))
    /\ []((mstate = "TryingLegacy") <=> (pc = "legacy"))
    /\ [](mstate = "FailPropagateOriginal" => pc \in {"throw", "failed"})
    /\ [](Terminated => mstate \in {"Unattempted", "Success", "FailPropagateOriginal"})

\* A clause whose modern expression parsed and whose closing parenthesis
\* was missing has gone on to the legacy grammar.
C17_Witness ==
    /\ mstate = "TryingLegacy"
    /\ modernErr.kind = "syntax"
    /\ modernErr.line = snap.line
    /\ modernErr.col > snap.column


\* C18: in parseModel the legacy grammar starts from the scanner state
\* (cursor, line, column) the modern grammar started from, however many
\* tokens the modern attempt read before it failed, and after both
\* attempts failed the scanner is in that state again.  That state is the
\* place behind the clause's opening parenthesis.
C18_LegacyStartsWhereModernStarted ==
    /\ pc \in {"modern", "legacy"} =>
          /\ sc = snap.state
          /\ snap.line = sc.line /\ snap.column = sc.col
          /\ sc = At(sc.pos)
          /\ input[sc.pos - 1] = "("
    /\ mstate = "FailPropagateOriginal" => sc = snap.state

\* Both grammars failed after the modern attempt had read a token.
C18_Witness ==
    /\ mstate = "FailPropagateOriginal"
    /\ legacyErr # NoErr
    /\ modernErr.line = snap.line
    /\ modernErr.col > snap.column
    /\ sc = snap.state


\* The places of the text that hold character c and are not followed by
\* any character of the set after.
PlacesOf(c, after) ==
    { p \in 1..Len(input) : input[p] = c /\ lookAhead(At(p)) \notin after }

\* C19: the token returned with the scanner at a '/' that is followed by
\* neither '*' nor '/' is a close marker (CDefinition).
C19_LoneSlashIsCloseMarker ==
    \A p \in PlacesOf("/", {"*", "/"}) : emitToken(At(p)).type = "CDefinition"

\* C20: with the scanner at a '*' that is not followed by '/', the text
\* from that '*' on is read by the default rule, as an integer, a decimal
\* or a word, and not as a punctuation token.
C20_LoneStarIsReadAsWord ==
    \A p \in PlacesOf("*", {"/"}) :
        /\ emitToken(At(p)).type \in {"Integer", "Decimal", "Word"}
        /\ emitToken(At(p)).begin = p


\* A declaration with an attribute that is written over several lines.
Spread(d) == \E a \in Range(d.attrs) : "nl" \in DOMAIN a

\* The declaration whose text the scanner is in.
Current == decls[CHOOSE i \in 1..Len(decls) :
                    /\ sc.pos <= CloseAt(i)
                    /\ \A j \in 1..(i - 1) : CloseAt(j) < sc.pos]

\* C21: line feeds between the tokens of an attribute change nothing: a
\* declaration whose attributes are written over several lines is parsed
\* to its end, and to the class info the same attributes give on one line
\* each.
C21_NewlinesInAttributesChangeNothing ==
    /\ pc \in {"throw", "failed"} /\ sc.pos <= CloseAt(Len(decls)) => ~Spread(Current)
    /\ pc = "final" /\ Spread(Returned) => ParsedFrom(classInfo, Returned)


\* The text of declaration i between the end of its attribute block, or
\* of its header line when it has no block, and its close marker.
DescriptionText(i) ==
    SubSeq(input,
           CloseAt(i) - 1 - (IF decls[i].block THEN 1 ELSE 0)
                      - (IF decls[i].desc = <<>> THEN 0 ELSE Len(decls[i].desc) + 1),
           CloseAt(i) - 2)

\* t is text without the whitespace it begins and ends with.
Trimmed(t, text) ==
    /\ t # <<>> => ~isWhitespace(t[1]) /\ ~isWhitespace(t[Len(t)])
    /\ \E a \in 1..(Len(text) + 1) :
          /\ a + Len(t) - 1 <= Len(text)
          /\ SubSeq(text, a, a + Len(t) - 1) = t
          /\ \A j \in 1..Len(text) :
                (j < a \/ j > a + Len(t) - 1) => isWhitespace(text[j])

C23_DefaultColorIsNeverUsed ==
    [][(pc = "final" /\ pc' = "ret" /\ retDef'.kind = "brush") =>
          /\ classInfo.hasColor
          /\ Returned.color # <<>>
          /\ retDef'.color = classInfo.color]_vars

\* A brush descriptor was built with a color that is not the default one.
C23_Witness ==
    /\ pc = "ret"
    /\ retDef # NoDefinition
    /\ retDef.kind = "brush"
    /\ retDef.color # DefaultEntityColor
    /\ Returned.color # <<>>


\* C24: every entry of the base-class registry has no color, no size and
\* no spawnflags attribute: bounds and spawnflags are parsed only after a
\* color was, and only classes without a color are stored.  What an entry
\* can give to a class that names it is choice attributes, a model
\* definition and a description.
C24_RegistryEntriesHaveNoColor ==
    /\ \A n \in DOMAIN baseClasses :
          /\ ~baseClasses[n].hasColor
          /\ ~baseClasses[n].hasSize
          /\ baseClasses[n].color = EntityDefinitionClassInfo.color
          /\ baseClasses[n].size = EntityDefinitionClassInfo.size
          /\ \A i \in 1..Len(baseClasses[n].attributes) :
                baseClasses[n].attributes[i].kind = "choice"
    /\ pc \in {"attrs", "attr", "parseModel", "modern", "legacy", "desc", "final"} =>
          /\ classInfo.hasSize => classInfo.hasColor
          /\ (\E i \in 1..Len(classInfo.attributes) :
                 classInfo.attributes[i].kind = "flags") => classInfo.hasColor

\* The registry holds a class with a choice attribute and a class with a
\* model definition, and a class with a color is about to be built.
C24_Witness ==
    /\ \E n \in DOMAIN baseClasses : baseClasses[n].attributes # <<>>
    /\ \E n \in DOMAIN baseClasses : baseClasses[n].hasModelDefinition
    /\ pc = "final"
    /\ classInfo.hasColor


\* C25: when a class without a color that names base classes is stored in
\* the registry, the names are neither resolved against the registry nor
\* kept in the entry: the entry is the class as its own text gives it, and
\* the entries of the classes it names are left as they were.
C25_BaseOfBaseIsNotResolved ==
    [][(pc = "final" /\ pc' = "call") =>
          /\ baseClasses'[classInfo.name] = classInfo
          /\ ParsedFrom(baseClasses'[classInfo.name], Returned)
          /\ "superClasses" \notin DOMAIN baseClasses'[classInfo.name]
          /\ DOMAIN baseClasses' = DOMAIN baseClasses \cup {classInfo.name}
          /\ \A n \in DOMAIN baseClasses \ {classInfo.name} :
                baseClasses'[n] = baseClasses[n]]_vars

\* A class that names a registered base with a choice attribute was stored
\* without that attribute.
C25_Witness ==
    \E n \in DOMAIN baseClasses, x \in DOMAIN baseClasses :
        /\ n # x
        /\ \E i \in 1..Len(decls) :
              /\ decls[i].name = n
              /\ CloseAt(i) <= sc.pos
              /\ \E a \in Range(decls[i].attrs) : a.k = "base" /\ a.arg = x
        /\ baseClasses[x].attributes # <<>>
        /\ baseClasses[n].attributes = <<>>
        /\ baseClasses[n].hasModelDefinition


\* C26: after the scanner returned the close marker for the two characters
\* '*' and '/', its cursor is behind both, so the '/' is not read again as
\* the beginning of the next token.
C26_CloseMarkerConsumesBothCharacters ==
    \A p \in 1..Len(input) :
        (input[p] = "*" /\ lookAhead(At(p)) = "/") =>
            /\ emitToken(At(p)).type = "CDefinition"
            /\ emitToken(At(p)).next.pos = p + 2

=============================================================================
